---- MODULE Spec2Model ----
(***************************************************************************)
(* One run of TranslationPipeline.process_audio (src/src/pipeline.py):     *)
(* SpeechToText.transcribe_audio, Translator.translate_to_multiple and     *)
(* TextToSpeech.synthesize_multiple, with the file system, the             *)
(* normalization tool and the three remote services as the environment.    *)
(* Spec is that one run, SpecStt the run as far as the return of           *)
(* transcribe_audio, SpecLive the run under fairness; SpecTwoRuns is two   *)
(* processes running process_audio side by side on one file system and     *)
(* clock; SpecCalls is a process that calls transcribe_audio,              *)
(* translate_text, synthesize_speech and synthesize_multiple one by one    *)
(* against every answer their services can give.                           *)
(***************************************************************************)
EXTENDS Integers, Sequences, FiniteSets, TLC

\* ------------------------------------------------------------------ bounds

\* Longest target_languages list a run is given.
MaxTargets == 2
\* Confidences a recognition response may carry are 0..MaxConf.
MaxConf == 1
\* The wall clock (whole seconds) runs over 0..MaxClock.
MaxClock == 1

\* --------------------------------------------------------- strings, paths

\* Python's None for an optional string.
NoLang == "None"

\* The strings whose lower-case form differs from themselves, among those the
\* model handles.
UpperToLower == [s \in {"WAV", "English", "Bangla", "en-GB"} |->
                    CASE s = "WAV" -> "wav"
                      [] s = "en-GB" -> "en-gb"
                      [] s = "English" -> "english"
                      [] s = "Bangla" -> "bangla"]

\* str.lower()
Lower(s) == IF s \in DOMAIN UpperToLower THEN UpperToLower[s] ELSE s

\* A path is a directory, a file-name prefix and the '.'-separated parts of the
\* rest of the file name: uploads/a.wav is ["uploads", "", <<"a", "wav">>].
MkPath(dir, prefix, parts) == [dir |-> dir, prefix |-> prefix, parts |-> parts]

\* None for an optional path.
NoPath == MkPath("", "", <<>>)

\* The audio files a caller may name; the last one does not exist.
ExistingInputs == {MkPath("uploads", "", <<"a", "WAV">>),
                   MkPath("uploads", "", <<"b", "mp3">>),
                   MkPath("uploads", "", <<"c", "aac">>)}
MissingInput == MkPath("uploads", "", <<"gone", "wav">>)
InputPaths == ExistingInputs \cup {MissingInput}

\* Values of language_code given to transcribe_audio.
SourceLanguages == {NoLang, "zh-CN"}

\* Target language codes a caller may request.
TargetCodes == {"en", "bn", "Bangla"}

\* All sequences over S of length at most n.
SeqUpTo(S, n) == UNION {[1..k -> S] : k \in 0..n}

TargetLists == SeqUpTo(TargetCodes, MaxTargets)

\* Transcripts a recognition response may carry.
Transcripts == {"", "ni hao"}

\* The text the translation service returns for a target code.
ServiceTranslation(lang) == CASE lang = "en" -> "hello"
                              [] lang = "bn" -> "halo"
                              [] OTHER -> "ohe"

\* ------------------------------------------------------ Audio preprocessor

\* What one run of the normalization tool can do: exit 0, exit non-zero, hit
\* the 30 s timeout, or fail to start; and whether it left an output file.
FfmpegRuns == {r \in [status : {"exit0", "exit1", "timeout", "oserror"}, wrote : BOOLEAN] :
                  r.status = "oserror" => ~r.wrote}

\* optimized_path of _optimize_audio_for_stt: <tmp>/optimized_<basename>.flac
OptimizedPath(input_path) == MkPath("tmp", "optimized_", Append(input_path.parts, "flac"))

\* The files after the tool ran (-y overwrites the output).
FilesAfterFfmpeg(files, input_path, run) ==
    IF run.wrote THEN files \cup {OptimizedPath(input_path)} ELSE files

\* A preprocessor that takes the output file whatever the tool's exit status.
OptimizeAudioForSttAnyStatus(available, input_path, run, filesAfter) ==
    IF ~available THEN input_path
    ELSE IF OptimizedPath(input_path) \in filesAfter THEN OptimizedPath(input_path)
    ELSE input_path

\* _optimize_audio_for_stt's return value, given the files the tool left.
OptimizeAudioForStt(available, input_path, run, filesAfter) ==
    IF ~available THEN input_path
    ELSE IF run.status \in {"timeout", "oserror"} THEN input_path
    ELSE IF run.status = "exit0" /\ OptimizedPath(input_path) \in filesAfter
         THEN OptimizedPath(input_path)
         ELSE input_path

\* ------------------------------------------------------ Transcription engine

\* encoding_map with an entry too many.
EncodingMapWithAac == [e \in {"wav", "mp3", "flac", "webm", "ogg", "mp4", "m4a", "aac"} |->
                          CASE e = "wav" -> "LINEAR16"
                            [] e = "flac" -> "FLAC"
                            [] e = "webm" -> "WEBM_OPUS"
                            [] e = "ogg" -> "OGG_OPUS"
                            [] OTHER -> "MP3"]

\* encoding_map of transcribe_audio
EncodingMap == [e \in {"wav", "mp3", "flac", "webm", "ogg", "mp4", "m4a"} |->
                   CASE e = "wav" -> "LINEAR16"
                     [] e = "mp3" -> "MP3"
                     [] e = "flac" -> "FLAC"
                     [] e = "webm" -> "WEBM_OPUS"
                     [] e = "ogg" -> "OGG_OPUS"
                     [] e = "mp4" -> "MP3"
                     [] e = "m4a" -> "MP3"]

\* processing_file_path.lower().split('.')[-1]
FileExtension(path) == Lower(path.parts[Len(path.parts)])

\* languages_to_try of the auto-detect branch
LanguagesToTry == <<"bn-BD", "en-US", "zh-CN">>

\* What the recognition service can answer to one request: a non-200 status,
\* a body without results, a fault (timeout, connection failure, malformed
\* body), or a first alternative with a transcript and maybe a confidence.
RecognitionResponses ==
    {[kind |-> k, transcript |-> "", has_confidence |-> FALSE, confidence |-> 0] :
        k \in {"http", "empty", "fault"}}
    \cup [kind : {"ok"}, transcript : Transcripts, has_confidence : {TRUE},
          confidence : 0..MaxConf]
    \cup [kind : {"ok"}, transcript : Transcripts, has_confidence : {FALSE},
          confidence : {0}]

\* _transcribe_with_language's return value: <<>> is None, <<h>> the hypothesis.
TranscribeWithLanguage(resp, language_code) ==
    IF resp.kind # "ok" THEN <<>>
    ELSE <<[transcription |-> resp.transcript,
            confidence |-> IF resp.has_confidence THEN resp.confidence ELSE 0,
            language |-> language_code]>>

\* The last of the largest instead of the first.
RECURSIVE MaxByConfidenceLast(_)
MaxByConfidenceLast(results) ==
    IF Len(results) = 1 THEN results[1]
    ELSE LET front == MaxByConfidenceLast(SubSeq(results, 1, Len(results) - 1))
             last == results[Len(results)]
         IN IF last.confidence >= front.confidence THEN last ELSE front

\* max(results, key=lambda x: x['confidence']): the first of the largest.
RECURSIVE MaxByConfidence(_)
MaxByConfidence(results) ==
    IF Len(results) = 1 THEN results[1]
    ELSE LET front == MaxByConfidence(SubSeq(results, 1, Len(results) - 1))
             last == results[Len(results)]
         IN IF last.confidence > front.confidence THEN last ELSE front

\* The records transcribe_audio returns.
SttFailure(err) == [success |-> FALSE, transcription |-> "", confidence |-> 0,
                    language |-> "", error |-> err]
SttSuccess(h) == [success |-> TRUE, transcription |-> h.transcription,
                  confidence |-> h.confidence, language |-> h.language, error |-> ""]
NoSttResult == SttFailure("")

\* A finally clause that removes nothing.
CleanupOptimizedSkipped(files, optimized, audio) == files

\* A finally clause that forgets to spare the input file.
CleanupOptimizedUnguarded(files, optimized, audio) ==
    IF optimized # NoPath THEN files \ {optimized} ELSE files

\* A cleanup that removes the file processed, derived or not.
CleanupOptimizedWithInput(files, optimized, audio) == files \ {optimized, audio}

\* The finally clause of transcribe_audio: the files after the cleanup.
CleanupOptimized(files, optimized, audio) ==
    IF optimized # NoPath /\ optimized # audio
    THEN files \ {optimized}
    ELSE files

\* ------------------------------------------------------- Translation fan-out

\* What the translation service can answer to one request for a target: its
\* translation, a non-200 status, or no answer within the 30 s timeout.
TranslateResponses(lang) ==
    {[kind |-> "ok", text |-> ServiceTranslation(lang)],
     [kind |-> "http", text |-> ""],
     [kind |-> "timeout", text |-> ""]}

\* translate_text without the test for data.translations.
TranslateTextUnchecked(resp) ==
    IF resp.kind \in {"ok", "invalid", "missing_entry"}
    THEN [success |-> TRUE, translated_text |-> resp.text, error |-> ""]
    ELSE [success |-> FALSE, translated_text |-> "", error |-> "Translation error"]

\* translate_text's return value.
TranslateText(resp) ==
    CASE resp.kind = "ok" -> [success |-> TRUE, translated_text |-> resp.text, error |-> ""]
      [] resp.kind = "http" ->
            [success |-> FALSE, translated_text |-> "", error |-> "Translation API Error"]
      [] resp.kind = "invalid" ->
            [success |-> FALSE, translated_text |-> "",
             error |-> "Invalid response from Translation API"]
      [] resp.kind = "timeout" ->
            [success |-> FALSE, translated_text |-> "", error |-> "Translation request timeout"]
      [] OTHER -> [success |-> FALSE, translated_text |-> "", error |-> "Translation error"]

\* lang_name of translate_to_multiple: {'en': 'English', 'bn': 'Bangla'}.get(lang, lang)
LangName(lang) == CASE lang = "en" -> "English"
                    [] lang = "bn" -> "Bangla"
                    [] OTHER -> lang

\* The key an entry is stored under: lang_name.lower()
DisplayKey(lang) == Lower(LangName(lang))

\* An entry that loses the error of a failed call.
TranslationEntryNoError(lang, r) ==
    [key |-> DisplayKey(lang), text |-> r.translated_text, language_code |-> lang,
     success |-> r.success, error |-> ""]

\* The entry translate_to_multiple stores for one call.
TranslationEntry(lang, r) ==
    IF r.success
    THEN [key |-> DisplayKey(lang), text |-> r.translated_text, language_code |-> lang,
          success |-> TRUE, error |-> ""]
    ELSE [key |-> DisplayKey(lang), text |-> "", language_code |-> lang,
          success |-> FALSE, error |-> r.error]

\* all_success as the success of the latest call alone.
TranslateAllSuccessLast(all_success, r) == r.success

\* all_success after one call of translate_to_multiple's loop.
TranslateAllSuccess(all_success, r) == IF r.success THEN all_success ELSE FALSE

\* A Python dict is a sequence of entries with distinct keys, in insertion
\* order; d[key] = entry replaces in place or appends.
DictKeys(d) == {d[i].key : i \in 1..Len(d)}
DictGet(d, key) == d[CHOOSE i \in 1..Len(d) : d[i].key = key]
DictPut(d, entry) ==
    IF entry.key \in DictKeys(d)
    THEN [i \in 1..Len(d) |-> IF d[i].key = entry.key THEN entry ELSE d[i]]
    ELSE Append(d, entry)

\* --------------------------------------------------------- Synthesis fan-out

\* What one synthesis call can meet: audio returned and written, a body
\* without audioContent, or a fault (connection failure, malformed body,
\* output file not writable).
SynthesisResponses == {"ok", "noaudio", "fault"}

\* language_map.get(lang_code, lang_code) of synthesize_multiple
TtsLanguageCode(lang_code) == CASE lang_code = "en" -> "en-US"
                                [] lang_code = "bn" -> "bn-IN"
                                [] OTHER -> lang_code

\* language_code.split('-')[0]
LangShort(language_code) == CASE language_code = "en-US" -> "en"
                              [] language_code = "en-GB" -> "en"
                              [] language_code = "bn-IN" -> "bn"
                              [] OTHER -> language_code

\* output_path of synthesize_speech: outputs/audio_<lang_short>_<timestamp>.mp3
OutputPath(language_code, now) == [lang_short |-> LangShort(language_code), timestamp |-> now]

\* '' for an audio path.
NoAudioPath == [lang_short |-> "", timestamp |-> 0 - 1]

\* synthesize_speech's return value.
SynthesizeSpeech(resp, language_code, now) ==
    CASE resp = "ok" ->
            [success |-> TRUE, audio_path |-> OutputPath(language_code, now), error |-> ""]
      [] resp = "http" -> [success |-> FALSE, audio_path |-> NoAudioPath, error |-> "TTS API Error"]
      [] resp = "noaudio" ->
            [success |-> FALSE, audio_path |-> NoAudioPath, error |-> "No audio content in response"]
      [] resp = "timeout" ->
            [success |-> FALSE, audio_path |-> NoAudioPath, error |-> "TTS request timeout"]
      [] OTHER -> [success |-> FALSE, audio_path |-> NoAudioPath, error |-> "TTS error"]

\* The skip test inverted, and the skip test dropped.
SkipsSynthesisInverted(translation) == translation.success
SkipsSynthesisNever(translation) == FALSE

\* if not translation.get('success', True): continue
SkipsSynthesis(translation) == ~translation.success

\* all_success as the success of the latest synthesis alone.
SynthesisAllSuccessLast(all_success, r) == r.success

\* all_success after one call of synthesize_multiple's loop.
SynthesisAllSuccess(all_success, r) == IF r.success THEN all_success ELSE FALSE

\* An entry that loses the error of a failed synthesis.
SynthesisEntryNoError(key, r) ==
    [key |-> key, audio_path |-> r.audio_path, success |-> r.success, error |-> ""]

\* The entry synthesize_multiple stores for one call.
SynthesisEntry(key, r) ==
    [key |-> key, audio_path |-> r.audio_path, success |-> r.success, error |-> r.error]

\* ------------------------------------------------------ Pipeline orchestrator

\* result of process_audio as first built.
InitialResult == [success |-> FALSE, transcription |-> <<>>, translations |-> <<>>,
                  audio_outputs |-> <<>>, errors |-> <<>>]

\* An overall flag that tolerates one error.
OverallSuccessLenient(errors) == Len(errors) <= 1

\* result['success'] = len(result['errors']) == 0
OverallSuccess(errors) == Len(errors) = 0

\* ------------------------------------------------- processes side by side

\* Two processes, each running process_audio once.
Runs == {"A", "B"}
Nobody == "nobody"

\* The arguments the two processes are given: single-language mode, one target.
TwoRunInputs == {MkPath("uploads", "", <<"a", "WAV">>), MkPath("uploads", "", <<"b", "mp3">>)}
TwoRunTargetLists == {<<"en">>, <<"bn">>}

\* The scratch files the preprocessor can leave for these inputs.
ScratchPaths == {OptimizedPath(p) : p \in TwoRunInputs}

\* No answer received (yet) from the tool or from a service.
NoFfmpegRun == [status |-> "none", wrote |-> FALSE]
NoRecognitionResponse == [kind |-> "none", transcript |-> "", has_confidence |-> FALSE,
                          confidence |-> 0]
NoTape == [ffmpeg |-> NoFfmpegRun, stt |-> NoRecognitionResponse, translate |-> "none",
           tts |-> "none"]

\* A process before its call of process_audio: the call's arguments and locals,
\* the answers the call received (tape), whose scratch file it read (read_from)
\* and whether it started after the other process had returned (after_other).
IdleRun == [pc |-> "idle", audio_file_path |-> NoPath, target_languages |-> <<>>,
            optimized_file_path |-> NoPath, processing_file_path |-> NoPath,
            stt_result |-> NoSttResult, result |-> InitialResult, tape |-> NoTape,
            read_from |-> Nobody, after_other |-> FALSE]

\* ------------------------------------------------ components called one by one

\* No call made yet: the function called, its language argument, the kinds of
\* the answers its requests met, the success flag, text and error detail of
\* the record it returned, and, for synthesize_multiple, the audio_files it
\* returned and the output files there were when it was called.
NoCall == [fn |-> "none", arg |-> "", outcomes |-> <<>>, success |-> FALSE, text |-> "",
           error |-> "", audio_files |-> <<>>, outputs_before |-> {}]

\* ------------------------------------------------------------------- state

VARIABLES
    ffmpeg_available,     \* SpeechToText.ffmpeg_available, set by the constructor
    files,                \* the audio files that exist (uploads and scratch)
    outputs,              \* the audio files written under outputs/
    clock,                \* the second of the latest timestamp put in an output path
    pc,                   \* where the run of process_audio stands
    audio_file_path,      \* process_audio's arguments
    source_language,
    target_languages,
    optimized_file_path,  \* transcribe_audio's locals
    processing_file_path,
    results,
    cand,
    stt_result,           \* what transcribe_audio returns
    ffmpeg_runs,          \* how often the normalization tool was started
    ffmpeg_result,        \* what the tool's latest run did, until the file is read
    stt_requests,         \* the recognition requests issued, in order
    tr_results,           \* translate_to_multiple's locals
    tr_all_success,
    tr_i,
    tr_requests,          \* the translation requests issued, in order
    tr_returns,           \* what each translation call returned, in order
    tts_results,          \* synthesize_multiple's locals
    tts_all_success,
    tts_j,
    tts_requests,         \* the synthesis requests issued, in order
    tts_returns,          \* what each synthesis call returned, in order
    result,               \* process_audio's result record
    runs,                 \* two processes that run process_audio side by side
    written_by,           \* which of them last wrote each scratch file
    call                  \* the latest call of a process that calls the components one by one

vars == <<ffmpeg_available, files, outputs, clock, pc, audio_file_path, source_language,
          target_languages, optimized_file_path, processing_file_path, results, cand,
          stt_result, ffmpeg_runs, ffmpeg_result, stt_requests, tr_results, tr_all_success,
          tr_i, tr_requests, tr_returns, tts_results, tts_all_success, tts_j, tts_requests,
          tts_returns, result, runs, written_by, call>>

\* The state of the one-run specification, and the state the others add.
oneRunVars == <<pc, audio_file_path, source_language, target_languages, optimized_file_path,
                processing_file_path, results, cand, stt_result, ffmpeg_runs, ffmpeg_result,
                stt_requests, tr_results, tr_all_success, tr_i, tr_requests, tr_returns, tts_results,
                tts_all_success, tts_j, tts_requests, tts_returns, result>>
otherVars == <<runs, written_by, call>>

envVars == <<ffmpeg_available, files, outputs, clock>>
argVars == <<audio_file_path, source_language, target_languages>>
sttVars == <<optimized_file_path, processing_file_path, results, cand, stt_result,
             ffmpeg_runs, ffmpeg_result, stt_requests>>
trVars == <<tr_results, tr_all_success, tr_i, tr_requests, tr_returns>>
ttsVars == <<tts_results, tts_all_success, tts_j, tts_requests, tts_returns>>

\* The pipeline is constructed (the constructor has looked for the tool) and
\* process_audio has not been called.
Init ==
    /\ ffmpeg_available \in BOOLEAN
    /\ files = ExistingInputs
    /\ outputs = {}
    /\ clock = 0
    /\ pc = "idle"
    /\ audio_file_path = NoPath
    /\ source_language = NoLang
    /\ target_languages = <<>>
    /\ optimized_file_path = NoPath
    /\ processing_file_path = NoPath
    /\ results = <<>>
    /\ cand = 1
    /\ stt_result = NoSttResult
    /\ ffmpeg_runs = 0
    /\ ffmpeg_result = NoFfmpegRun
    /\ stt_requests = <<>>
    /\ tr_results = <<>>
    /\ tr_all_success = TRUE
    /\ tr_i = 1
    /\ tr_requests = <<>>
    /\ tr_returns = <<>>
    /\ tts_results = <<>>
    /\ tts_all_success = TRUE
    /\ tts_j = 1
    /\ tts_requests = <<>>
    /\ tts_returns = <<>>
    /\ result = InitialResult
    /\ runs = [r \in Runs |-> IdleRun]
    /\ written_by = [p \in ScratchPaths |-> Nobody]
    /\ call = NoCall

\* ---------------------------------------------------------------- actions

\* process_audio is called: the result record is built and transcribe_audio
\* is entered (optimized_file_path = None).
ProcessAudio ==
    /\ pc = "idle"
    /\ \E path \in InputPaths, lang \in SourceLanguages, targets \in TargetLists :
          /\ audio_file_path' = path
          /\ source_language' = lang
          /\ target_languages' = targets
    /\ result' = InitialResult
    /\ optimized_file_path' = NoPath
    /\ pc' = "stt_exists"
    /\ UNCHANGED <<envVars, processing_file_path, results, cand, stt_result, ffmpeg_runs,
                   stt_requests, trVars, ttsVars>>
    /\ UNCHANGED otherVars
    /\ UNCHANGED ffmpeg_result

\* process_audio is called with a target_languages that is not a list of
\* strings (None, or a list that holds a non-string): ', '.join(target_languages)
\* in the banner raises TypeError before the result record is built, and no
\* statement of process_audio is inside a try block, so the call ends with the
\* exception and returns nothing.
ProcessAudioRaises ==
    /\ pc = "idle"
    /\ pc' = "raised"
    /\ UNCHANGED <<envVars, argVars, sttVars, trVars, ttsVars, result>>
    /\ UNCHANGED otherVars

\* transcribe_audio without the os.path.exists check.
SttCheckExistsSkipped ==
    /\ pc = "stt_exists"
    /\ stt_result' = stt_result
    /\ pc' = "stt_optimize"
    /\ UNCHANGED <<envVars, argVars, optimized_file_path, processing_file_path, results,
                   cand, ffmpeg_runs, stt_requests, trVars, ttsVars, result>>
    /\ UNCHANGED otherVars
    /\ UNCHANGED ffmpeg_result

\* transcribe_audio: the os.path.exists check.
SttCheckExists ==
    /\ pc = "stt_exists"
    /\ IF audio_file_path \notin files
       THEN /\ stt_result' = SttFailure("Audio file not found")
            /\ pc' = "stt_finally"
       ELSE /\ stt_result' = stt_result
            /\ pc' = "stt_optimize"
    /\ UNCHANGED <<envVars, argVars, optimized_file_path, processing_file_path, results,
                   cand, ffmpeg_runs, stt_requests, trVars, ttsVars, result>>
    /\ UNCHANGED otherVars
    /\ UNCHANGED ffmpeg_result

\* transcribe_audio calls _optimize_audio_for_stt, which runs the tool when
\* it is available.
SttOptimize ==
    /\ pc = "stt_optimize"
    /\ \E run \in FfmpegRuns :
          LET after == IF ffmpeg_available
                       THEN FilesAfterFfmpeg(files, audio_file_path, run)
                       ELSE files
              path == OptimizeAudioForStt(ffmpeg_available, audio_file_path, run, after)
          IN /\ files' = after
             /\ optimized_file_path' = path
             /\ processing_file_path' = path
             /\ ffmpeg_result' = IF ffmpeg_available THEN run ELSE NoFfmpegRun
    /\ ffmpeg_runs' = IF ffmpeg_available THEN ffmpeg_runs + 1 ELSE ffmpeg_runs
    /\ pc' = "stt_read"
    /\ UNCHANGED <<ffmpeg_available, outputs, clock, argVars, results, cand, stt_result,
                   stt_requests, trVars, ttsVars, result>>
    /\ UNCHANGED otherVars

\* transcribe_audio reads the processing file and resolves its encoding.
SttReadAndResolve ==
    /\ pc = "stt_read"
    /\ \E io \in {"ok", "fault"} :
          IF processing_file_path \notin files
          THEN /\ stt_result' = SttFailure("Audio file not found")
               /\ pc' = "stt_finally"
          ELSE IF io = "fault"
          THEN /\ stt_result' = SttFailure("Speech-to-Text error")
               /\ pc' = "stt_finally"
          ELSE IF FileExtension(processing_file_path) \notin DOMAIN EncodingMap
          THEN /\ stt_result' = SttFailure("Unsupported audio format")
               /\ pc' = "stt_finally"
          ELSE /\ stt_result' = stt_result
               /\ pc' = IF source_language # NoLang THEN "stt_single" ELSE "stt_auto"
    /\ results' = <<>>
    /\ cand' = 1
    /\ ffmpeg_result' = NoFfmpegRun
    /\ UNCHANGED <<envVars, argVars, optimized_file_path, processing_file_path, ffmpeg_runs,
                   stt_requests, trVars, ttsVars, result>>
    /\ UNCHANGED otherVars

\* The request _transcribe_with_language posts.
RecognitionRequest(language_code) ==
    LET encoding == EncodingMap[FileExtension(processing_file_path)]
    IN [languageCode |-> language_code,
        encoding |-> encoding,
        sampleRateHertz |-> IF processing_file_path # audio_file_path THEN 16000
                            ELSE IF encoding \in {"LINEAR16", "FLAC"} THEN 16000
                            ELSE 16000]

\* What the single-language branch returns for _transcribe_with_language's r.
SingleLanguageResult(r) ==
    IF r # <<>> THEN SttSuccess(r[1]) ELSE SttFailure("No speech detected")

\* Single-language mode: one recognition request.
SttSingle ==
    /\ pc = "stt_single"
    /\ \E resp \in RecognitionResponses :
          stt_result' = SingleLanguageResult(TranscribeWithLanguage(resp, source_language))
    /\ stt_requests' = Append(stt_requests, RecognitionRequest(source_language))
    /\ pc' = "stt_finally"
    /\ UNCHANGED <<envVars, argVars, optimized_file_path, processing_file_path, results,
                   cand, ffmpeg_runs, trVars, ttsVars, result>>
    /\ UNCHANGED otherVars
    /\ UNCHANGED ffmpeg_result

\* Auto-detect mode: the request for the next candidate language.
SttCandidate ==
    /\ pc = "stt_auto"
    /\ cand <= Len(LanguagesToTry)
    /\ \E resp \in RecognitionResponses :
          results' = results \o TranscribeWithLanguage(resp, LanguagesToTry[cand])
    /\ stt_requests' = Append(stt_requests, RecognitionRequest(LanguagesToTry[cand]))
    /\ cand' = cand + 1
    /\ UNCHANGED <<envVars, argVars, pc, optimized_file_path, processing_file_path,
                   stt_result, ffmpeg_runs, trVars, ttsVars, result>>
    /\ UNCHANGED otherVars
    /\ UNCHANGED ffmpeg_result

\* The error of the auto-detect branch when no candidate gave a hypothesis.
NoSpeechInAnyLanguage ==
    "No speech detected. Try: 1) Speaking louder and closer to mic, 2) Recording a longer phrase, 3) Uploading a pre-recorded file instead"

\* What the auto-detect branch returns once the loop is over.
AutoDetectResult(rs) ==
    IF rs = <<>> THEN SttFailure(NoSpeechInAnyLanguage) ELSE SttSuccess(MaxByConfidence(rs))

\* A loop left after its first turn.
AutoDetectLoopDoneEarly(c) == c > 1

\* A loop left before its last candidate was tried.
AutoDetectLoopDoneAfterTwo(c) == c > Len(LanguagesToTry) - 1

\* The auto-detect loop may be left.
AutoDetectLoopDone(c) == c > Len(LanguagesToTry)

\* Auto-detect mode: every candidate was tried; pick the best hypothesis.
SttSelect ==
    /\ pc = "stt_auto"
    /\ AutoDetectLoopDone(cand)
    /\ stt_result' = AutoDetectResult(results)
    /\ pc' = "stt_finally"
    /\ UNCHANGED <<envVars, argVars, optimized_file_path, processing_file_path, results,
                   cand, ffmpeg_runs, stt_requests, trVars, ttsVars, result>>
    /\ UNCHANGED otherVars
    /\ UNCHANGED ffmpeg_result

\* transcribe_audio's finally clause runs and the call returns stt_result.
SttFinally ==
    /\ pc = "stt_finally"
    /\ files' = CleanupOptimized(files, optimized_file_path, audio_file_path)
    /\ pc' = "stt_returned"
    /\ UNCHANGED <<ffmpeg_available, outputs, clock, argVars, sttVars, trVars, ttsVars,
                   result>>
    /\ UNCHANGED otherVars

\* An orchestrator that never returns early.
TranscriptionFailedIgnored(r) == FALSE

\* if not stt_result['success']: ... return result
TranscriptionFailed(r) == ~r.success

\* process_audio after transcribe_audio returned (its locals are gone): the
\* early return, or the transcription is recorded and translate_to_multiple
\* is entered.
AfterTranscribe ==
    /\ pc = "stt_returned"
    /\ IF TranscriptionFailed(stt_result)
       THEN /\ result' = [result EXCEPT
                             !.errors = Append(@, <<"Speech-to-Text failed", stt_result.error>>)]
            /\ pc' = "done"
       ELSE /\ result' = [result EXCEPT
                             !.transcription = <<[text |-> stt_result.transcription,
                                                  confidence |-> stt_result.confidence,
                                                  language |-> stt_result.language]>>]
            /\ pc' = "translate"
    /\ tr_results' = <<>>
    /\ tr_all_success' = TRUE
    /\ tr_i' = 1
    /\ optimized_file_path' = NoPath
    /\ processing_file_path' = NoPath
    /\ results' = <<>>
    /\ cand' = 1
    /\ UNCHANGED <<envVars, argVars, stt_result, ffmpeg_runs, stt_requests, tr_requests,
                   tr_returns, ttsVars>>
    /\ UNCHANGED otherVars
    /\ UNCHANGED ffmpeg_result

\* translate_to_multiple: one turn of the loop, the call for the next target.
Translate ==
    /\ pc = "translate"
    /\ tr_i <= Len(target_languages)
    /\ \E resp \in TranslateResponses(target_languages[tr_i]) :
          LET lang == target_languages[tr_i]
              r == TranslateText(resp)
          IN /\ tr_results' = DictPut(tr_results, TranslationEntry(lang, r))
             /\ tr_all_success' = TranslateAllSuccess(tr_all_success, r)
             /\ tr_requests' = Append(tr_requests, lang)
             /\ tr_returns' = Append(tr_returns, r)
    /\ tr_i' = tr_i + 1
    /\ UNCHANGED <<envVars, argVars, pc, sttVars, ttsVars, result>>
    /\ UNCHANGED otherVars

\* translate_to_multiple's return value.
TranslationResult == [success |-> tr_all_success, translations |-> tr_results]

\* A stage message put in front of the list.
StageErrorsPrepend(errors, stage_success, msg) ==
    IF ~stage_success THEN <<(<<msg, "">>)>> \o errors ELSE errors

\* The message process_audio appends after a stage that reports failure.
StageErrors(errors, stage_success, msg) ==
    IF ~stage_success THEN Append(errors, <<msg, "">>) ELSE errors

\* translate_to_multiple returns; process_audio records the translations and
\* enters synthesize_multiple.
AfterTranslate ==
    /\ pc = "translate"
    /\ tr_i > Len(target_languages)
    /\ result' = [result EXCEPT
                     !.errors = StageErrors(@, TranslationResult.success,
                                            "Translation failed for some languages"),
                     !.translations = TranslationResult.translations]
    /\ tts_results' = <<>>
    /\ tts_all_success' = TRUE
    /\ tts_j' = 1
    /\ pc' = "synthesize"
    /\ UNCHANGED <<envVars, argVars, sttVars, trVars, tts_requests, tts_returns>>
    /\ UNCHANGED otherVars

\* synthesize_multiple: one turn of the loop over translations_dict.items():
\* a failed translation is skipped, any other is synthesized.
Synthesize ==
    /\ pc = "synthesize"
    /\ tts_j <= Len(result.translations)
    /\ LET translation == result.translations[tts_j]
           tts_lang_code == TtsLanguageCode(translation.language_code)
       IN IF SkipsSynthesis(translation)
          THEN UNCHANGED <<outputs, clock, tts_results, tts_all_success, tts_requests,
                           tts_returns>>
          ELSE \E resp \in SynthesisResponses, now \in clock..MaxClock :
                  LET r == SynthesizeSpeech(resp, tts_lang_code, now)
                  IN /\ clock' = IF r.success THEN now ELSE clock
                     /\ outputs' = IF r.success THEN outputs \cup {r.audio_path} ELSE outputs
                     /\ tts_results' = DictPut(tts_results, SynthesisEntry(translation.key, r))
                     /\ tts_all_success' = SynthesisAllSuccess(tts_all_success, r)
                     /\ tts_requests' = Append(tts_requests,
                                               [key |-> translation.key,
                                                language_code |-> tts_lang_code,
                                                text |-> translation.text])
                     /\ tts_returns' = Append(tts_returns, r)
    /\ tts_j' = tts_j + 1
    /\ UNCHANGED <<ffmpeg_available, files, argVars, pc, sttVars, trVars, result>>
    /\ UNCHANGED otherVars

\* synthesize_multiple's return value.
SynthesisResult == [success |-> tts_all_success, audio_files |-> tts_results]

\* synthesize_multiple returns; process_audio records the audio files, sets
\* the overall success flag and returns.
Finish ==
    /\ pc = "synthesize"
    /\ tts_j > Len(result.translations)
    /\ LET errors == StageErrors(result.errors, SynthesisResult.success,
                                 "Text-to-Speech failed for some languages")
       IN result' = [result EXCEPT !.errors = errors,
                                   !.audio_outputs = SynthesisResult.audio_files,
                                   !.success = OverallSuccess(errors)]
    /\ pc' = "done"
    /\ UNCHANGED <<envVars, argVars, sttVars, trVars, ttsVars>>
    /\ UNCHANGED otherVars

Next ==
    \/ ProcessAudio
    \/ ProcessAudioRaises
    \/ SttCheckExists
    \/ SttOptimize
    \/ SttReadAndResolve
    \/ SttSingle
    \/ SttCandidate
    \/ SttSelect
    \/ SttFinally
    \/ AfterTranscribe
    \/ Translate
    \/ AfterTranslate
    \/ Synthesize
    \/ Finish

Spec == Init /\ [][Next]_vars

\* The run as far as the return of transcribe_audio: the call of process_audio
\* and the steps of its transcription stage.
SttNext ==
    \/ ProcessAudio
    \/ SttCheckExists
    \/ SttOptimize
    \/ SttReadAndResolve
    \/ SttSingle
    \/ SttCandidate
    \/ SttSelect
    \/ SttFinally

SpecStt == Init /\ [][SttNext]_vars

\* The run under fairness: process_audio is sequential code whose every step
\* ends (each remote call and the tool answer or hit their timeout), so the
\* run is not suspended for ever while it has a statement to execute.
SpecLive == Init /\ [][Next]_vars /\ WF_vars(Next)

\* ------------------------------------- two processes running process_audio

\* The answers the tool and the services give the two processes.
TwoRunSourceLanguage == "zh-CN"
TwoRunFfmpegRuns == {r \in FfmpegRuns : r.status \in {"exit0", "exit1"}}
TwoRunRecognitionResponses ==
    {r \in RecognitionResponses :
        \/ r.kind = "empty"
        \/ r.kind = "ok" /\ r.transcript = "ni hao" /\ r.has_confidence
              /\ r.confidence = MaxConf}
TwoRunTranslateResponses(lang) == {r \in TranslateResponses(lang) : r.kind \in {"ok", "timeout"}}
TwoRunSynthesisResponses == {"ok", "fault"}

\* Process r calls process_audio.
RunProcessAudio(r) ==
    /\ runs[r].pc = "idle"
    /\ \E path \in TwoRunInputs, targets \in TwoRunTargetLists :
          runs' = [runs EXCEPT ![r] =
                      [@ EXCEPT !.pc = "stt_exists",
                                !.audio_file_path = path,
                                !.target_languages = targets,
                                !.result = InitialResult,
                                !.after_other = \A o \in Runs \ {r} : runs[o].pc = "done"]]
    /\ UNCHANGED <<envVars, written_by, call, oneRunVars>>

\* transcribe_audio in process r: the os.path.exists check.
RunCheckExists(r) ==
    /\ runs[r].pc = "stt_exists"
    /\ runs' = [runs EXCEPT ![r] =
                   IF @.audio_file_path \notin files
                   THEN [@ EXCEPT !.stt_result = SttFailure("Audio file not found"),
                                  !.pc = "stt_finally"]
                   ELSE [@ EXCEPT !.pc = "stt_optimize"]]
    /\ UNCHANGED <<envVars, written_by, call, oneRunVars>>

\* transcribe_audio in process r calls _optimize_audio_for_stt.
RunOptimize(r) ==
    /\ runs[r].pc = "stt_optimize"
    /\ \E run \in TwoRunFfmpegRuns :
          LET input == runs[r].audio_file_path
              after == IF ffmpeg_available THEN FilesAfterFfmpeg(files, input, run) ELSE files
              path == OptimizeAudioForStt(ffmpeg_available, input, run, after)
          IN /\ files' = after
             /\ written_by' = IF ffmpeg_available /\ run.wrote
                              THEN [written_by EXCEPT ![OptimizedPath(input)] = r]
                              ELSE written_by
             /\ runs' = [runs EXCEPT ![r] =
                            [@ EXCEPT !.optimized_file_path = path,
                                      !.processing_file_path = path,
                                      !.tape = [@ EXCEPT !.ffmpeg = IF ffmpeg_available THEN run
                                                                    ELSE NoFfmpegRun],
                                      !.pc = "stt_read"]]
    /\ UNCHANGED <<ffmpeg_available, outputs, clock, call, oneRunVars>>

\* transcribe_audio in process r reads the processing file and resolves its
\* encoding.
RunReadAndResolve(r) ==
    /\ runs[r].pc = "stt_read"
    /\ LET path == runs[r].processing_file_path
       IN runs' = [runs EXCEPT ![r] =
                     IF path \notin files
                     THEN [@ EXCEPT !.stt_result = SttFailure("Audio file not found"),
                                    !.pc = "stt_finally"]
                     ELSE IF FileExtension(path) \notin DOMAIN EncodingMap
                     THEN [@ EXCEPT !.stt_result = SttFailure("Unsupported audio format"),
                                    !.read_from = IF path \in ScratchPaths THEN written_by[path]
                                                  ELSE Nobody,
                                    !.pc = "stt_finally"]
                     ELSE [@ EXCEPT !.read_from = IF path \in ScratchPaths THEN written_by[path]
                                                  ELSE Nobody,
                                    !.pc = "stt_single"]]
    /\ UNCHANGED <<envVars, written_by, call, oneRunVars>>

\* transcribe_audio in process r: the recognition request of single-language
\* mode.
RunSingle(r) ==
    /\ runs[r].pc = "stt_single"
    /\ \E resp \in TwoRunRecognitionResponses :
          runs' = [runs EXCEPT ![r] =
                      [@ EXCEPT !.stt_result = SingleLanguageResult(
                                                  TranscribeWithLanguage(resp, TwoRunSourceLanguage)),
                                !.tape = [@ EXCEPT !.stt = resp],
                                !.pc = "stt_finally"]]
    /\ UNCHANGED <<envVars, written_by, call, oneRunVars>>

\* transcribe_audio's finally clause runs in process r and the call returns;
\* process_audio returns early or records the transcription.
RunFinally(r) ==
    /\ runs[r].pc = "stt_finally"
    /\ files' = CleanupOptimized(files, runs[r].optimized_file_path, runs[r].audio_file_path)
    /\ written_by' = [p \in ScratchPaths |-> IF p \in files' THEN written_by[p] ELSE Nobody]
    /\ runs' = [runs EXCEPT ![r] =
                   IF TranscriptionFailed(@.stt_result)
                   THEN [@ EXCEPT !.result = [@ EXCEPT !.errors =
                                     Append(@, <<"Speech-to-Text failed", runs[r].stt_result.error>>)],
                                  !.optimized_file_path = NoPath,
                                  !.processing_file_path = NoPath,
                                  !.pc = "done"]
                   ELSE [@ EXCEPT !.result = [@ EXCEPT !.transcription =
                                     <<[text |-> runs[r].stt_result.transcription,
                                        confidence |-> runs[r].stt_result.confidence,
                                        language |-> runs[r].stt_result.language]>>],
                                  !.optimized_file_path = NoPath,
                                  !.processing_file_path = NoPath,
                                  !.pc = "translate"]]
    /\ UNCHANGED <<ffmpeg_available, outputs, clock, call, oneRunVars>>

\* translate_to_multiple in process r, for its one target.
RunTranslate(r) ==
    /\ runs[r].pc = "translate"
    /\ \E resp \in TwoRunTranslateResponses(runs[r].target_languages[1]) :
          LET lang == runs[r].target_languages[1]
              tr == TranslateText(resp)
              translations == DictPut(<<>>, TranslationEntry(lang, tr))
              all_success == TranslateAllSuccess(TRUE, tr)
          IN runs' = [runs EXCEPT ![r] =
                         [@ EXCEPT !.result = [@ EXCEPT
                                       !.errors = StageErrors(@, all_success,
                                                     "Translation failed for some languages"),
                                       !.translations = translations],
                                   !.tape = [@ EXCEPT !.translate = resp.kind],
                                   !.pc = "synthesize"]]
    /\ UNCHANGED <<envVars, written_by, call, oneRunVars>>

\* Process r once synthesize_multiple has returned audio_files and all_success:
\* process_audio records them, sets the overall flag and returns.
RunFinished(rec, audio_files, all_success, resp) ==
    LET errors == StageErrors(rec.result.errors, all_success,
                              "Text-to-Speech failed for some languages")
    IN [rec EXCEPT !.result = [@ EXCEPT !.errors = errors,
                                        !.audio_outputs = audio_files,
                                        !.success = OverallSuccess(errors)],
                   !.tape = [@ EXCEPT !.tts = resp],
                   !.pc = "done"]

\* synthesize_multiple in process r, for its one translation.
RunSynthesize(r) ==
    /\ runs[r].pc = "synthesize"
    /\ LET translation == runs[r].result.translations[1]
           tts_lang_code == TtsLanguageCode(translation.language_code)
       IN IF SkipsSynthesis(translation)
          THEN /\ runs' = [runs EXCEPT ![r] = RunFinished(@, <<>>, TRUE, "none")]
               /\ UNCHANGED <<outputs, clock>>
          ELSE \E resp \in TwoRunSynthesisResponses, now \in clock..MaxClock :
                  LET sr == SynthesizeSpeech(resp, tts_lang_code, now)
                      audio_files == DictPut(<<>>, SynthesisEntry(translation.key, sr))
                  IN /\ clock' = IF sr.success THEN now ELSE clock
                     /\ outputs' = IF sr.success THEN outputs \cup {sr.audio_path} ELSE outputs
                     /\ runs' = [runs EXCEPT ![r] =
                                    RunFinished(@, audio_files, SynthesisAllSuccess(TRUE, sr), resp)]
    /\ UNCHANGED <<ffmpeg_available, files, written_by, call, oneRunVars>>

TwoRunsNext ==
    \/ \E r \in Runs : RunProcessAudio(r)
    \/ \E r \in Runs : RunCheckExists(r)
    \/ \E r \in Runs : RunOptimize(r)
    \/ \E r \in Runs : RunReadAndResolve(r)
    \/ \E r \in Runs : RunSingle(r)
    \/ \E r \in Runs : RunFinally(r)
    \/ \E r \in Runs : RunTranslate(r)
    \/ \E r \in Runs : RunSynthesize(r)

SpecTwoRuns == Init /\ [][TwoRunsNext]_vars

\* --------------------------------- a process calling the components one by one

\* Everything the translation service can do to one request: besides the
\* answers above, a 200 body without data.translations, one whose translations
\* list is empty, a connection failure, and a body that is not JSON.
AllTranslateResponses(lang) ==
    TranslateResponses(lang)
    \cup {[kind |-> k, text |-> ""] : k \in {"invalid", "missing_entry", "connection", "malformed"}}

\* Everything a synthesis call can meet: besides the outcomes above, a non-200
\* status and no answer within the 60 s timeout.
AllSynthesisResponses == SynthesisResponses \cup {"http", "timeout"}

\* The recognition answers met here: every kind, one hypothesis.
CallRecognitionResponses ==
    {r \in RecognitionResponses :
        r.kind = "ok" => r.transcript # "" /\ r.has_confidence /\ r.confidence = MaxConf}

\* The input of the transcribe_audio calls, what the tool does on it, and the
\* language of the synthesize_speech calls.
CallInput == MkPath("uploads", "", <<"b", "mp3">>)
CallFfmpegRuns == {r \in FfmpegRuns : \/ r.status = "exit0" /\ r.wrote
                                      \/ r.status = "exit1" /\ ~r.wrote}
CallSynthesisTargets == {"en"}

\* results of the auto-detect loop after the first k candidates met resps.
RECURSIVE AutoDetectResults(_, _)
AutoDetectResults(resps, k) ==
    IF k = 0 THEN <<>>
    ELSE AutoDetectResults(resps, k - 1) \o TranscribeWithLanguage(resps[k], LanguagesToTry[k])

\* A whole call of transcribe_audio on an existing file: existence check,
\* preprocessing, read, encoding, the request(s) of the mode, finally clause.
CallTranscribeAudio ==
    \E language_code \in SourceLanguages,
       run \in (IF ffmpeg_available THEN CallFfmpegRuns ELSE {NoFfmpegRun}) :
    \E resps \in [1..(IF language_code # NoLang THEN 1 ELSE Len(LanguagesToTry))
                      -> CallRecognitionResponses] :
       LET after == IF ffmpeg_available THEN FilesAfterFfmpeg(files, CallInput, run) ELSE files
           processing == OptimizeAudioForStt(ffmpeg_available, CallInput, run, after)
           requests == Len(resps)
           r == IF CallInput \notin files THEN SttFailure("Audio file not found")
                ELSE IF FileExtension(processing) \notin DOMAIN EncodingMap
                THEN SttFailure("Unsupported audio format")
                ELSE IF language_code # NoLang
                THEN SingleLanguageResult(TranscribeWithLanguage(resps[1], language_code))
                ELSE AutoDetectResult(AutoDetectResults(resps, Len(LanguagesToTry)))
       IN /\ files' = CleanupOptimized(after, processing, CallInput)
          /\ call' = [fn |-> "transcribe_audio", arg |-> language_code,
                      outcomes |-> [n \in 1..requests |-> resps[n].kind],
                      success |-> r.success, text |-> r.transcription, error |-> r.error,
                      audio_files |-> <<>>, outputs_before |-> {}]
          /\ UNCHANGED <<ffmpeg_available, outputs, clock, runs, written_by, oneRunVars>>

\* A whole call of translate_text.
CallTranslateText ==
    \E lang \in TargetCodes :
       \E resp \in AllTranslateResponses(lang) :
          LET r == TranslateText(resp)
          IN /\ call' = [fn |-> "translate_text", arg |-> lang, outcomes |-> <<resp.kind>>,
                         success |-> r.success, text |-> r.translated_text, error |-> r.error,
                         audio_files |-> <<>>, outputs_before |-> {}]
             /\ UNCHANGED <<envVars, runs, written_by, oneRunVars>>

\* A whole call of synthesize_speech.
CallSynthesizeSpeech ==
    \E lang \in CallSynthesisTargets, resp \in AllSynthesisResponses, now \in clock..MaxClock :
       LET r == SynthesizeSpeech(resp, TtsLanguageCode(lang), now)
       IN /\ clock' = IF r.success THEN now ELSE clock
          /\ outputs' = IF r.success THEN outputs \cup {r.audio_path} ELSE outputs
          /\ call' = [fn |-> "synthesize_speech", arg |-> TtsLanguageCode(lang),
                      outcomes |-> <<resp>>, success |-> r.success, text |-> "",
                      error |-> r.error, audio_files |-> <<>>, outputs_before |-> {}]
          /\ UNCHANGED <<ffmpeg_available, files, runs, written_by, oneRunVars>>

\* The target lists whose translations are handed to synthesize_multiple (the
\* second names two locales of one language), what the translation of a target
\* met (only the first target's may fail), and what a synthesis met (an entry
\* that is skipped meets nothing: its answer is fixed).
CallMultipleTargets == {<<"bn", "en">>, <<"en", "en-GB">>}
CallMultipleTranslateResponses(lang) ==
    {r \in TranslateResponses(lang) : r.kind \in {"ok", "timeout"}}
CallMultipleSynthesisResponses == {"ok", "fault"}

\* translations of translate_to_multiple after the first k targets met resps.
RECURSIVE TranslationsOf(_, _, _)
TranslationsOf(targets, resps, k) ==
    IF k = 0 THEN <<>>
    ELSE DictPut(TranslationsOf(targets, resps, k - 1),
                 TranslationEntry(targets[k], TranslateText(resps[k])))

\* results of synthesize_multiple's loop after the first k translations, the
\* k-th synthesis meeting resps[k] at second nows[k].
RECURSIVE SynthesizeMultipleResults(_, _, _, _)
SynthesizeMultipleResults(translations, resps, nows, k) ==
    IF k = 0 THEN <<>>
    ELSE LET before == SynthesizeMultipleResults(translations, resps, nows, k - 1)
             translation == translations[k]
             tts_lang_code == TtsLanguageCode(translation.language_code)
         IN IF SkipsSynthesis(translation) THEN before
            ELSE DictPut(before,
                         SynthesisEntry(translation.key,
                                        SynthesizeSpeech(resps[k], tts_lang_code, nows[k])))

\* all_success of synthesize_multiple's loop after the first k translations.
RECURSIVE SynthesizeMultipleAllSuccess(_, _, _, _)
SynthesizeMultipleAllSuccess(translations, resps, nows, k) ==
    IF k = 0 THEN TRUE
    ELSE LET before == SynthesizeMultipleAllSuccess(translations, resps, nows, k - 1)
             translation == translations[k]
             tts_lang_code == TtsLanguageCode(translation.language_code)
         IN IF SkipsSynthesis(translation) THEN before
            ELSE SynthesisAllSuccess(before,
                                     SynthesizeSpeech(resps[k], tts_lang_code, nows[k]))

\* A whole call of synthesize_multiple on the translations translate_to_multiple
\* returned, as the text endpoint makes it.
CallSynthesizeMultiple ==
    \E targets \in CallMultipleTargets :
    \E first \in CallMultipleTranslateResponses(targets[1]),
       resps \in [1..Len(targets) -> CallMultipleSynthesisResponses],
       now1 \in clock..MaxClock :
    \E now2 \in now1..MaxClock :
       /\ first.kind # "ok" => resps[1] = "ok"
       /\ LET tr == [k \in 1..Len(targets) |->
                       IF k = 1 THEN first
                       ELSE [kind |-> "ok", text |-> ServiceTranslation(targets[k])]]
              nows == [k \in 1..Len(targets) |-> IF k = 1 THEN now1 ELSE now2]
              translations == TranslationsOf(targets, tr, Len(targets))
              n == Len(translations)
              audio_files == SynthesizeMultipleResults(translations, resps, nows, n)
              all_success == SynthesizeMultipleAllSuccess(translations, resps, nows, n)
          IN /\ clock' = nows[Len(targets)]
             /\ outputs' = outputs \cup {audio_files[i].audio_path :
                                             i \in {j \in 1..Len(audio_files) :
                                                        audio_files[j].success}}
             /\ call' = [fn |-> "synthesize_multiple", arg |-> "",
                         outcomes |-> [k \in 1..n |-> IF SkipsSynthesis(translations[k])
                                                       THEN "skipped" ELSE resps[k]],
                         success |-> all_success, text |-> "", error |-> "",
                         audio_files |-> audio_files, outputs_before |-> outputs]
       /\ UNCHANGED <<ffmpeg_available, files, runs, written_by, oneRunVars>>

CallsNext ==
    \/ CallTranscribeAudio
    \/ CallTranslateText
    \/ CallSynthesizeSpeech
    \/ CallSynthesizeMultiple

SpecCalls == Init /\ [][CallsNext]_vars

\* ------------------------------------------------------------------ claims

\* Points of a run the claims speak of.
SttReturned == pc = "stt_returned"
TranslateReturned ==
    \/ pc = "translate" /\ tr_i > Len(target_languages)
    \/ pc = "synthesize"
    \/ pc = "done" /\ stt_result.success
SynthesizeReturned ==
    \/ pc = "synthesize" /\ tts_j > Len(result.translations)
    \/ pc = "done" /\ stt_result.success
RunReturned == pc = "done"

IsSuccess(e) == e.success
KeysOf(d) == [k \in 1..Len(d) |-> d[k].key]
RequestedLanguages == [k \in 1..Len(stt_requests) |-> stt_requests[k].languageCode]
DistinctDisplayKeys(targets) ==
    \A i, j \in 1..Len(targets) : i # j => DisplayKey(targets[i]) # DisplayKey(targets[j])
\* The extensions the specification lists as accepted.
AcceptedExtensions == {"wav", "mp3", "flac", "webm", "ogg", "mp4", "m4a"}
SupportedExtension(path) == FileExtension(path) \in AcceptedExtensions
DerivedFileUsed == optimized_file_path # NoPath /\ optimized_file_path # audio_file_path

\* C1: once transcribe_audio has returned success=false inside process_audio,
\* the run goes nowhere but to its end, no translation and no synthesis
\* request is ever issued, and the returned record has no transcription, no
\* translations, no audio outputs, success=false and exactly one error, the
\* transcription error.
C1_ShortCircuit ==
    (pc \in {"stt_returned", "translate", "synthesize", "done"} /\ ~stt_result.success) =>
        /\ pc \in {"stt_returned", "done"}
        /\ tr_requests = <<>>
        /\ tts_requests = <<>>
        /\ RunReturned =>
              /\ result.transcription = <<>>
              /\ result.translations = <<>>
              /\ result.audio_outputs = <<>>
              /\ result.errors = <<<<"Speech-to-Text failed", stt_result.error>>>>
              /\ ~result.success

\* C1 witness: a run asked for two targets has returned after a recognition
\* call found no speech.
C1_Witness ==
    /\ RunReturned
    /\ ~stt_result.success
    /\ stt_result.error = "No speech detected"
    /\ Len(target_languages) = 2

\* C2: in every returned record, success is true iff the error list is empty,
\* and the error list is empty iff transcription succeeded, the translation
\* call of every requested target succeeded and every synthesis call made
\* succeeded.
C2_SuccessIffNoErrors ==
    RunReturned =>
        /\ result.success <=> (result.errors = <<>>)
        /\ (result.errors = <<>>) <=>
              /\ stt_result.success
              /\ \A i \in 1..Len(target_languages) :
                    i <= Len(tr_returns) /\ tr_returns[i].success
              /\ \A k \in 1..Len(tts_returns) : tts_returns[k].success

\* C2 witness: a run with two targets returned success=true after two
\* synthesis calls.
C2_Witness ==
    /\ RunReturned
    /\ result.success
    /\ Len(target_languages) = 2
    /\ Len(tts_returns) = 2

\* C3 as stated: after a successful transcription, the returned run has
\* issued a synthesis request for every requested target whose translation
\* call succeeded.
C3_Original ==
    (RunReturned /\ stt_result.success) =>
        \A i \in 1..Len(target_languages) :
            tr_returns[i].success =>
                \E k \in 1..Len(tts_requests) :
                    tts_requests[k].language_code = TtsLanguageCode(target_languages[i])

\* C3 as amended: after a successful transcription every target is sent to
\* translation whatever failed before, the synthesis loop runs to its end,
\* and exactly one synthesis request is issued, with its text, for every
\* entry of the returned translations mapping that is successful, whatever
\* the earlier synthesis calls returned; when the targets have distinct
\* display keys that is every target whose translation call succeeded.
C3_Continues ==
    (RunReturned /\ stt_result.success) =>
        /\ Len(tr_returns) = Len(target_languages)
        /\ tts_j = Len(result.translations) + 1
        /\ \A n \in 1..Len(result.translations) :
              result.translations[n].success =>
                  Cardinality({k \in 1..Len(tts_requests) :
                                  /\ tts_requests[k].key = result.translations[n].key
                                  /\ tts_requests[k].text = result.translations[n].text
                                  /\ tts_requests[k].language_code =
                                        TtsLanguageCode(result.translations[n].language_code)}) = 1
        /\ DistinctDisplayKeys(target_languages) =>
              \A i \in 1..Len(target_languages) :
                  tr_returns[i].success =>
                      \E k \in 1..Len(tts_requests) :
                          tts_requests[k].language_code = TtsLanguageCode(target_languages[i])

\* C3 witness: the first target's translation failed, the second succeeded
\* and was sent to synthesis.
C3_Witness ==
    /\ RunReturned
    /\ Len(target_languages) = 2
    /\ Len(tr_returns) = 2
    /\ ~tr_returns[1].success
    /\ tr_returns[2].success
    /\ Len(tts_requests) = 1

\* C4: translate_to_multiple issues one request per requested target code, in
\* request order, whatever earlier requests returned; when the targets have
\* distinct display keys the returned mapping has one entry per target, that
\* of a failed call with success=false, empty text and the call's error, that
\* of a successful call with success=true and the text the call returned.
C4_OneRequestPerTarget ==
    /\ pc = "translate" => tr_requests = SubSeq(target_languages, 1, tr_i - 1)
    /\ TranslateReturned =>
          /\ tr_requests = target_languages
          /\ DistinctDisplayKeys(target_languages) =>
                /\ Len(tr_results) = Len(target_languages)
                /\ \A i \in 1..Len(target_languages) :
                      LET e == DictGet(tr_results, DisplayKey(target_languages[i]))
                          r == tr_returns[i]
                      IN /\ DisplayKey(target_languages[i]) \in DictKeys(tr_results)
                         /\ e.language_code = target_languages[i]
                         /\ e.success = r.success
                         /\ r.success => e.text = r.translated_text
                         /\ ~r.success => e.text = "" /\ e.error = r.error /\ e.error # ""

\* C4 witness: two targets with distinct display keys, the first call failed
\* and the second succeeded.
C4_Witness ==
    /\ TranslateReturned
    /\ Len(target_languages) = 2
    /\ DistinctDisplayKeys(target_languages)
    /\ ~tr_returns[1].success
    /\ tr_returns[2].success

\* C5: the keys of the mapping synthesize_multiple returns are exactly the
\* keys of the translations with success=true; a failed translation causes no
\* synthesis request and gets no entry, and each successful one causes exactly
\* one request and gets one entry under its key.
C5_SynthesisKeys ==
    SynthesizeReturned =>
        LET succeeded == SelectSeq(result.translations, IsSuccess)
        IN /\ DictKeys(tts_results) = DictKeys(succeeded)
           /\ Len(tts_results) = Len(succeeded)
           /\ KeysOf(tts_requests) = KeysOf(succeeded)
           /\ Len(tts_returns) = Len(succeeded)

\* C5 witness: synthesize_multiple returned for a mapping with one failed and
\* one successful translation.
C5_Witness ==
    /\ SynthesizeReturned
    /\ Len(result.translations) = 2
    /\ \E m, n \in 1..2 : ~result.translations[m].success /\ result.translations[n].success

C7_Original ==
    (SttReturned /\ ~SupportedExtension(audio_file_path)) =>
        ~stt_result.success /\ stt_requests = <<>>

\* C7 as amended: an input whose extension is not a supported one makes
\* transcribe_audio fail without any recognition request whenever the
\* preprocessor gave no derived file (it is unavailable, or it fell back to
\* the input); with a derived file the request is made for the derived FLAC
\* file.
C7_UnsupportedRejected ==
    /\ (SttReturned /\ ~SupportedExtension(audio_file_path) /\ ~DerivedFileUsed) =>
          ~stt_result.success /\ stt_requests = <<>>
    /\ (SttReturned /\ DerivedFileUsed) =>
          \A k \in 1..Len(stt_requests) : stt_requests[k].encoding = "FLAC"

\* C7 witness: the tool is available, fell back to an input with an
\* unsupported extension, and transcribe_audio returned.
C7_Witness ==
    /\ SttReturned
    /\ ffmpeg_available
    /\ ~SupportedExtension(audio_file_path)
    /\ optimized_file_path = audio_file_path

\* C8: in auto-detect mode with at least one hypothesis, transcribe_audio
\* returns the text, confidence and language of a hypothesis of the largest
\* confidence, the first attempted one among those that share it.
C8_BestHypothesis ==
    (SttReturned /\ source_language = NoLang /\ results # <<>>) =>
        /\ stt_result.success
        /\ \E i \in 1..Len(results) :
              /\ stt_result.transcription = results[i].transcription
              /\ stt_result.confidence = results[i].confidence
              /\ stt_result.language = results[i].language
              /\ \A j \in 1..Len(results) : results[j].confidence <= results[i].confidence
              /\ \A j \in 1..(i - 1) : results[j].confidence < results[i].confidence

\* C8 witness: auto-detect returned with three hypotheses, the last two
\* sharing the largest confidence.
C8_Witness ==
    /\ SttReturned
    /\ source_language = NoLang
    /\ Len(results) = 3
    /\ results[1].confidence < results[2].confidence
    /\ results[2].confidence = results[3].confidence

\* C9: in auto-detect mode, when no candidate call gave a hypothesis,
\* transcribe_audio returns success=false with the non-empty no-speech
\* explanation, and that explanation is only ever returned after a request
\* for every candidate, in list order.
C9_NoSpeechAfterAllCandidates ==
    /\ (SttReturned /\ source_language = NoLang /\ stt_requests # <<>> /\ results = <<>>) =>
          /\ ~stt_result.success
          /\ stt_result.error = NoSpeechInAnyLanguage
          /\ stt_result.error # ""
    /\ stt_result.error = NoSpeechInAnyLanguage => RequestedLanguages = LanguagesToTry

\* C9 witness: auto-detect returned the no-speech failure.
C9_Witness ==
    /\ SttReturned
    /\ source_language = NoLang
    /\ stt_result.error = NoSpeechInAnyLanguage

\* C10 as stated: the success flag translate_to_multiple returns is the AND
\* of the success flags of the entries of the mapping it returns.
C10_Original ==
    TranslateReturned =>
        (TranslationResult.success <=>
            \A n \in 1..Len(TranslationResult.translations) :
                TranslationResult.translations[n].success)

\* C10 as amended: the success flag translate_to_multiple returns is the AND
\* of the success flags of the translation calls made, one per requested
\* target, for the empty list and for lists that repeat a code too; it is the
\* AND over the entries of the returned mapping when the targets have
\* distinct display keys.
C10_AndOverCalls ==
    TranslateReturned =>
        /\ TranslationResult.success <=>
              \A i \in 1..Len(target_languages) : tr_returns[i].success
        /\ DistinctDisplayKeys(target_languages) =>
              (TranslationResult.success <=>
                  \A n \in 1..Len(TranslationResult.translations) :
                      TranslationResult.translations[n].success)

\* C10 witness: a code requested twice, the first call failed and the second
\* succeeded.
C10_Witness ==
    /\ TranslateReturned
    /\ Len(target_languages) = 2
    /\ target_languages[1] = target_languages[2]
    /\ ~tr_returns[1].success
    /\ tr_returns[2].success

\* C11: when synthesize_multiple returns, its aggregate success flag is the
\* conjunction of the success flags of the entries it produced; a translation
\* that was skipped because it had failed never makes the flag false, and the
\* flag is true when no entry was produced.
C11_AggregateOverProduced ==
    SynthesizeReturned =>
        /\ SynthesisResult.success
              <=> \A n \in 1..Len(SynthesisResult.audio_files) :
                     SynthesisResult.audio_files[n].success
        /\ SynthesisResult.audio_files = <<>> => SynthesisResult.success

\* synthesize_multiple returned for a mapping with a failed translation, which
\* it skipped, and a translation it synthesized: the flag is true.
C11_Witness ==
    /\ SynthesizeReturned
    /\ Len(result.translations) = 2
    /\ ~result.translations[1].success
    /\ result.translations[2].success
    /\ Len(SynthesisResult.audio_files) = 1
    /\ SynthesisResult.audio_files[1].success
    /\ SynthesisResult.success

\* C12: in one translate_to_multiple call two distinct requested target codes
\* never map to the same display key, so the returned mapping has as many
\* entries as there are distinct requested codes.
C12_NoKeyCollision ==
    TranslateReturned =>
        /\ \A i, j \in 1..Len(target_languages) :
              target_languages[i] # target_languages[j]
                 => DisplayKey(target_languages[i]) # DisplayKey(target_languages[j])
        /\ Len(TranslationResult.translations)
              = Cardinality({target_languages[i] : i \in 1..Len(target_languages)})

\* C15: whenever transcribe_audio returns success (single-language or
\* auto-detect mode), the text is non-empty, the confidence lies in the
\* service's range (0..MaxConf here, [0, 1] there), and the language tag is the
\* languageCode of the request that produced the chosen hypothesis.
C15_SuccessShape ==
    SttReturned /\ stt_result.success =>
        /\ stt_result.transcription # ""
        /\ stt_result.confidence \in 0..MaxConf
        /\ \E k \in 1..Len(stt_requests) : stt_requests[k].languageCode = stt_result.language
        /\ source_language # NoLang => stt_result.language = source_language
        /\ source_language = NoLang =>
              \E n \in 1..Len(results) :
                 /\ results[n].language = stt_result.language
                 /\ results[n].transcription = stt_result.transcription
                 /\ results[n].confidence = stt_result.confidence

\* C20: when the input path does not exist, transcribe_audio returns
\* success=false with the file-not-found error before the preprocessor is
\* invoked and before any recognition request is issued, and it creates no file.
C20_MissingInputRejectedFirst ==
    SttReturned /\ audio_file_path \notin ExistingInputs =>
        /\ ~stt_result.success
        /\ stt_result.error = "Audio file not found"
        /\ ffmpeg_runs = 0
        /\ stt_requests = <<>>
        /\ files = ExistingInputs

\* transcribe_audio returned for the missing path in a process whose
\* preprocessor is available.
C20_Witness ==
    /\ SttReturned
    /\ audio_file_path = MissingInput
    /\ ffmpeg_available
    /\ ~stt_result.success

\* The entry of a mapping stored under a key, as a set (empty when absent).
EntriesUnder(d, key) == {d[n] : n \in {m \in 1..Len(d) : d[m].key = key}}

\* The last call of translate_to_multiple made for the display key of call i.
LastCallFor(i) ==
    CHOOSE j \in i..Len(tr_returns) :
        /\ DisplayKey(tr_requests[j]) = DisplayKey(tr_requests[i])
        /\ \A k \in (j + 1)..Len(tr_returns) :
              DisplayKey(tr_requests[k]) # DisplayKey(tr_requests[i])

\* Every synthesis call of the run has its entry in the returned record: one
\* with success=false and a non-empty error when the call failed, one with
\* success=true when it succeeded.
SynthesisOutcomesRecorded ==
    \A n \in 1..Len(tts_returns) :
        \E e \in EntriesUnder(result.audio_outputs, tts_requests[n].key) :
           /\ e.success = tts_returns[n].success
           /\ ~tts_returns[n].success => e.error # ""

\* C17 as stated: after a successful transcription, every requested target
\* whose translation failed, and every target whose synthesis failed, has an
\* entry in the returned record with success=false and a non-empty error, and
\* every target that succeeded keeps its entry with success=true.
C17_Original ==
    RunReturned /\ stt_result.success =>
        /\ \A i \in 1..Len(tr_returns) :
              \E e \in EntriesUnder(result.translations, DisplayKey(tr_requests[i])) :
                 /\ e.language_code = tr_requests[i]
                 /\ e.success = tr_returns[i].success
                 /\ ~tr_returns[i].success => e.error # ""
        /\ SynthesisOutcomesRecorded

\* C17, amended: the returned record holds, under every requested target's
\* display key, the outcome of the last translation call made for that key
\* (success=false with that call's non-empty error, or success=true), so a
\* target whose display key no later target shares is identifiable whether it
\* failed or succeeded; and every synthesis call has its entry, with
\* success=false and a non-empty error when it failed.
C17_FailuresIdentifiable ==
    RunReturned /\ stt_result.success =>
        /\ \A i \in 1..Len(tr_returns) :
              \E e \in EntriesUnder(result.translations, DisplayKey(tr_requests[i])) :
                 /\ e.language_code = tr_requests[LastCallFor(i)]
                 /\ e.success = tr_returns[LastCallFor(i)].success
                 /\ ~e.success => e.error # "" /\ e.error = tr_returns[LastCallFor(i)].error
        /\ SynthesisOutcomesRecorded

\* A run that transcribed, failed to translate its first target, translated
\* its second and failed to synthesize it has returned.
C17_Witness ==
    /\ RunReturned
    /\ stt_result.success
    /\ Len(tr_returns) = 2
    /\ DisplayKey(tr_requests[1]) # DisplayKey(tr_requests[2])
    /\ ~tr_returns[1].success
    /\ tr_returns[2].success
    /\ Len(tts_returns) = 1
    /\ ~tts_returns[1].success

\* C16: process_audio never lets a fault escape to its caller: every call ends
\* by returning its result record (with the fault text in the error list and
\* success=false when a fault occurred), never with an exception.
C16_NoFaultEscapes == pc # "raised"

\* The audio files process r's returned record reports as written.
ReportedAudioPaths(r) ==
    {runs[r].result.audio_outputs[n].audio_path :
        n \in {m \in 1..Len(runs[r].result.audio_outputs) :
                  runs[r].result.audio_outputs[m].success}}

\* C13: two pipeline runs that execute side by side, or within the same clock
\* second, write disjoint sets of audio output paths: neither overwrites or
\* reports a file the other produced.
C13_DisjointOutputs ==
    \A a, b \in Runs :
        a # b => ReportedAudioPaths(a) \cap ReportedAudioPaths(b) = {}

\* C14: for any interleaving of two transcribe_audio runs, a derived scratch
\* file is created, read and deleted only by the run that created it: when a
\* run comes to read its derived file the file is there and is the one it
\* wrote, and a run whose input exists never ends with the file-not-found
\* error, as it never does alone.
C14_DerivedFileExclusive ==
    \A r \in Runs :
        /\ runs[r].pc = "stt_read" /\ runs[r].processing_file_path # runs[r].audio_file_path =>
              /\ runs[r].processing_file_path \in files
              /\ written_by[runs[r].processing_file_path] = r
        /\ runs[r].read_from \in {Nobody, r}
        /\ runs[r].audio_file_path \in ExistingInputs =>
              runs[r].stt_result.error # "Audio file not found"

\* Two tapes that one deterministic (mocked) tool and set of services can have
\* produced: wherever both processes received an answer, it is the same answer.
SameResponses(s, t) ==
    /\ s.ffmpeg = t.ffmpeg \/ s.ffmpeg = NoFfmpegRun \/ t.ffmpeg = NoFfmpegRun
    /\ s.stt = t.stt \/ s.stt = NoRecognitionResponse \/ t.stt = NoRecognitionResponse
    /\ s.translate = t.translate \/ s.translate = "none" \/ t.translate = "none"
    /\ s.tts = t.tts \/ s.tts = "none" \/ t.tts = "none"

\* What a returned record shows of the run's outcome: the transcription text,
\* the translation texts and the success flags per language.
Outcome(rec) ==
    [transcription |-> [n \in 1..Len(rec.transcription) |-> rec.transcription[n].text],
     translations |-> [n \in 1..Len(rec.translations) |->
                          <<rec.translations[n].key, rec.translations[n].text,
                            rec.translations[n].success>>],
     audio_outputs |-> [n \in 1..Len(rec.audio_outputs) |->
                           <<rec.audio_outputs[n].key, rec.audio_outputs[n].success>>],
     success |-> rec.success]

\* Process b ran process_audio after process a had returned, on the same
\* arguments and with the same answers.
RanTwice(a, b) ==
    /\ a # b
    /\ runs[a].pc = "done"
    /\ runs[b].pc = "done"
    /\ runs[b].after_other
    /\ runs[a].audio_file_path = runs[b].audio_file_path
    /\ runs[a].target_languages = runs[b].target_languages
    /\ SameResponses(runs[a].tape, runs[b].tape)

\* C19: running process_audio twice on the same input, with the same
\* deterministic answers from the preprocessor and the three services, yields
\* the same transcription text, the same translation texts and the same
\* per-language success flags.
C19_Idempotent ==
    \A a, b \in Runs : RanTwice(a, b) => Outcome(runs[a].result) = Outcome(runs[b].result)

\* process_audio ran twice on the same input with the same answers, the file
\* being used as it is (no derived file), and transcribed, translated and
\* synthesized both times.
C19_Witness ==
    \E a, b \in Runs :
        /\ RanTwice(a, b)
        /\ runs[a].tape.ffmpeg # NoFfmpegRun => runs[a].tape.ffmpeg.status # "exit0"
        /\ runs[a].result.success
        /\ runs[b].result.success
        /\ Len(runs[b].result.audio_outputs) = 1

\* C18: no transport outcome of a remote call (non-success status, timeout,
\* connection failure, malformed or incomplete body such as a missing audio
\* payload or a missing translation entry) is raised out of transcribe_audio,
\* translate_text or synthesize_speech: a call all of whose requests met such an
\* outcome returns a record with success=false and a non-empty error detail.
C18_TransportFailuresReturned ==
    /\ call.fn \in {"transcribe_audio", "translate_text", "synthesize_speech"}
    /\ \A n \in 1..Len(call.outcomes) : call.outcomes[n] # "ok"
    => /\ call.outcomes # <<>>
       /\ ~call.success
       /\ call.error # ""

\* translate_text returned after a 200 answer whose translations list is empty.
C18_Witness ==
    /\ call.fn = "translate_text"
    /\ call.outcomes = <<"missing_entry">>
    /\ ~call.success
    /\ call.error = "Translation error"

\* C21: a recognition call that fails at the transport level (non-2xx status,
\* timeout, connection failure) makes single-language transcribe_audio return a
\* failure whose error detail is not the one of a well-formed answer without
\* hypotheses: it is never reported as 'No speech detected'.
C21_TransportDistinguished ==
    /\ call.fn = "transcribe_audio"
    /\ call.arg # NoLang
    /\ call.outcomes \in {<<"http">>, <<"fault">>}
    => /\ ~call.success
       /\ call.error # "No speech detected"

\* transcribe_audio got as far as its recognition requests: the input exists,
\* the file it processes was read, and its extension has an encoding.
ReachedRecognition ==
    /\ audio_file_path \in ExistingInputs
    /\ SupportedExtension(processing_file_path)
    /\ stt_result.error # "Speech-to-Text error"

\* The place of a candidate language in the fixed list.
CandidateIndex(lang) == CHOOSE k \in 1..Len(LanguagesToTry) : LanguagesToTry[k] = lang

\* C22: a transcribe_audio call on an existing file with a supported encoding
\* issues exactly one recognition request when a language code is given, and
\* exactly one per candidate of the fixed list, in list order, when it is not;
\* in auto-detect mode the candidates that gave no hypothesis are left out of
\* the selection (the hypotheses kept are those of the other candidates, in
\* list order) and the remaining candidates are still requested.
C22_RequestsPerMode ==
    SttReturned /\ ReachedRecognition =>
        /\ source_language # NoLang => RequestedLanguages = <<source_language>>
        /\ source_language = NoLang =>
              /\ RequestedLanguages = LanguagesToTry
              /\ \A n \in 1..Len(results) :
                    results[n].language \in {LanguagesToTry[k] : k \in 1..Len(LanguagesToTry)}
              /\ \A m, n \in 1..Len(results) :
                    m < n => CandidateIndex(results[m].language)
                                < CandidateIndex(results[n].language)
              /\ stt_result.success =>
                    \E n \in 1..Len(results) : results[n].language = stt_result.language
              /\ ~stt_result.success => results = <<>>

\* An auto-detect call whose first two candidates failed and whose last one
\* gave the hypothesis that is returned: three requests were issued.
C22_Witness ==
    /\ SttReturned
    /\ ReachedRecognition
    /\ source_language = NoLang
    /\ Len(stt_requests) = Len(LanguagesToTry)
    /\ Len(results) = 1
    /\ results[1].language = LanguagesToTry[Len(LanguagesToTry)]
    /\ stt_result.success
    /\ stt_result.language = LanguagesToTry[Len(LanguagesToTry)]

\* C23: within one synthesize_multiple call every successful entry has an
\* output path distinct from the path of every other entry of the call and
\* from every audio file there was before the call, whatever the target
\* locales and the clock seconds of the syntheses.
C23_FreshOutputPaths ==
    call.fn = "synthesize_multiple" =>
        \A i \in 1..Len(call.audio_files) :
            call.audio_files[i].success =>
                /\ \A j \in 1..Len(call.audio_files) :
                      j # i => call.audio_files[j].audio_path # call.audio_files[i].audio_path
                /\ call.audio_files[i].audio_path \notin call.outputs_before

\* C24: a recognition request carries sampleRateHertz = 16000 when the file
\* processed is the derived file, or is the original file with encoding
\* LINEAR16 or FLAC; with the original file and any other encoding the request
\* carries no sampleRateHertz at all.
C24_SampleRatePolicy ==
    SttReturned =>
        \A k \in 1..Len(stt_requests) :
            LET req == stt_requests[k]
            IN IF \/ processing_file_path # audio_file_path
                  \/ req.encoding \in {"LINEAR16", "FLAC"}
               THEN "sampleRateHertz" \in DOMAIN req /\ req.sampleRateHertz = 16000
               ELSE "sampleRateHertz" \notin DOMAIN req

\* The preprocessor has just returned inside transcribe_audio.
OptimizeReturned == pc = "stt_read"

\* C25: the preprocessor never fails the run. With the tool unavailable it
\* returns the input path and the tool is not invoked; with the tool available
\* it returns the derived path exactly when the tool exited with status zero and
\* the output file exists, and the input path after a non-zero exit, a timeout,
\* a failure to start or a missing output file; the call goes on with the
\* returned path, and every recognition request is built from that file.
C25_PreprocessorDegrades ==
    /\ OptimizeReturned =>
          /\ stt_result = NoSttResult
          /\ processing_file_path = optimized_file_path
          /\ ~ffmpeg_available =>
                /\ processing_file_path = audio_file_path
                /\ ffmpeg_runs = 0
                /\ ffmpeg_result = NoFfmpegRun
          /\ ffmpeg_available =>
                /\ ffmpeg_runs = 1
                /\ processing_file_path =
                      IF /\ ffmpeg_result.status = "exit0"
                         /\ OptimizedPath(audio_file_path) \in files
                      THEN OptimizedPath(audio_file_path)
                      ELSE audio_file_path
    /\ pc \in {"stt_single", "stt_auto", "stt_finally"} /\ optimized_file_path # NoPath =>
          /\ processing_file_path = optimized_file_path
          /\ processing_file_path \in {audio_file_path, OptimizedPath(audio_file_path)}
          /\ \A k \in 1..Len(stt_requests) :
                stt_requests[k].encoding = EncodingMap[FileExtension(processing_file_path)]

\* The tool hit its timeout after it had written the output file: the
\* preprocessor returned the input path.
C25_Witness ==
    /\ OptimizeReturned
    /\ ffmpeg_available
    /\ ffmpeg_result = [status |-> "timeout", wrote |-> TRUE]
    /\ OptimizedPath(audio_file_path) \in files
    /\ processing_file_path = audio_file_path

\* C26: transcribe_audio never deletes or overwrites the caller's input file.
\* The only file the call writes is the derived scratch file, whose path is
\* never the input path, and once the call has returned, whether preprocessing
\* gave the derived file, fell back to the input or the call failed, the
\* input file is still there.
C26_InputKept ==
    /\ audio_file_path \in InputPaths => OptimizedPath(audio_file_path) # audio_file_path
    /\ \A f \in files : f \in ExistingInputs \/ f = OptimizedPath(audio_file_path)
    /\ pc # "idle" /\ audio_file_path \in ExistingInputs => audio_file_path \in files
    /\ SttReturned /\ audio_file_path \notin ExistingInputs => audio_file_path \notin files

\* A call whose preprocessing fell back to the input file has returned a
\* transcription: the file processed was the input itself, and it is kept.
C26_Witness ==
    /\ SttReturned
    /\ ffmpeg_available
    /\ audio_file_path \in ExistingInputs
    /\ optimized_file_path = audio_file_path
    /\ stt_result.success
    /\ audio_file_path \in files

\* C27: the remote calls of a run are strictly staged. While transcribe_audio
\* runs no translation or synthesis request has been issued; translation
\* requests are issued only once a successful transcription was returned, and
\* while they are issued no synthesis request has been; synthesis requests are
\* issued only once every target's translation call has returned, and each
\* carries the key, the language and the text of a successful translation call
\* of the run.
C27_StrictStaging ==
    /\ pc \in {"idle", "stt_exists", "stt_optimize", "stt_read", "stt_single", "stt_auto",
               "stt_finally", "stt_returned"} =>
          tr_requests = <<>> /\ tts_requests = <<>>
    /\ tr_requests # <<>> => stt_result.success
    /\ pc = "translate" => tts_requests = <<>>
    /\ tts_requests # <<>> =>
          /\ pc \in {"synthesize", "done"}
          /\ Len(tr_returns) = Len(target_languages)
    /\ \A n \in 1..Len(tts_requests) :
          \E i \in 1..Len(tr_returns) :
             /\ tr_returns[i].success
             /\ tts_requests[n].key = DisplayKey(target_languages[i])
             /\ tts_requests[n].language_code = TtsLanguageCode(target_languages[i])
             /\ tts_requests[n].text = tr_returns[i].translated_text

\* A run with two targets whose first translation failed has issued its only
\* synthesis request, for the second target.
C27_Witness ==
    /\ pc = "done"
    /\ Len(target_languages) = 2
    /\ Len(tr_returns) = 2
    /\ ~tr_returns[1].success
    /\ tr_returns[2].success
    /\ Len(tts_requests) = 1
    /\ tts_requests[1].key = DisplayKey(target_languages[2])
    /\ tts_requests[1].text = tr_returns[2].translated_text

\* The calls a run has issued stay within its bounds: at most one tool run, at
\* most one recognition request per candidate, one translation request per
\* target and one synthesis request per successful translation entry.
BoundedCalls ==
    /\ ffmpeg_runs <= 1
    /\ Len(stt_requests) <= Len(LanguagesToTry)
    /\ Len(tr_requests) <= Len(target_languages)
    /\ Len(tts_requests) <= Len(result.translations)

\* A call of process_audio ends, by returning or by raising.
EventuallyEnds == <>(pc \in {"done", "raised"})

\* C28: every run of process_audio eventually reaches DONE, where it returns
\* its record, given that each remote call and the tool answer or time out.
C28_EventuallyDone == <>(pc = "done")

\* The messages of the error list of the run's record, in order.
ErrorMessages == [n \in 1..Len(result.errors) |-> result.errors[n][1]]

\* C29: the error list of a returned record has exactly one entry after a
\* failed transcription and at most two after a successful one: the translation
\* stage and the synthesis stage each append at most one message, however many
\* of their targets failed, and the translation message comes first.
C29_ErrorListShape ==
    RunReturned =>
        /\ ~stt_result.success => ErrorMessages = <<"Speech-to-Text failed">>
        /\ stt_result.success =>
              ErrorMessages \in {<<>>,
                                 <<"Translation failed for some languages">>,
                                 <<"Text-to-Speech failed for some languages">>,
                                 <<"Translation failed for some languages",
                                   "Text-to-Speech failed for some languages">>}

\* A run with two targets, the first failed in translation and the second in
\* synthesis, returned a record with the two stage messages.
C29_Witness ==
    /\ RunReturned
    /\ Len(tr_returns) = 2
    /\ ~tr_returns[1].success
    /\ tr_returns[2].success
    /\ Len(tts_returns) = 1
    /\ ~tts_returns[1].success
    /\ Len(result.errors) = 2

\* C30: once transcribe_audio has returned, no file is left at the derived
\* scratch path of the call, whatever the tool did: also when the preprocessor
\* fell back to the input after the tool had written its output file.
C30_NoScratchFileLeft ==
    SttReturned /\ audio_file_path \in InputPaths =>
        OptimizedPath(audio_file_path) \notin files

====
